---- MODULE Spec2Model ----
(***************************************************************************)
(* State-machine model of jobs_search.py: configuration check, per-role    *)
(* query building, search / dedup / cap aggregation, HTML report           *)
(* rendering and the SMTP session of send_email.                           *)
(*                                                                         *)
(* Strings of the program are sequences of one-character strings, so that  *)
(* concatenation (title + snippet), the "." test and html.escape are       *)
(* computed as the code computes them.  A value that may be None is a      *)
(* record [some, val].  Not modelled: the timestamp of the report heading, *)
(* the subject line, SMTP_HOST and SMTP_USER, and a SMTP_PORT that is not   *)
(* a number (int() raises while the module is loaded, before main).        *)
(***************************************************************************)
EXTENDS Naturals, Sequences, FiniteSets, TLC

-----------------------------------------------------------------------------
(* Python values *)

None == [some |-> FALSE, val |-> <<>>]
Some(s) == [some |-> TRUE, val |-> s]

\* Python truthiness of an optional string: None and "" are falsy.
Truthy(o) == o.some /\ o.val # <<>>

\* Python `a or b` on optional strings.
PyOr(a, b) == IF Truthy(a) THEN a ELSE b

\* f"{x}" of an optional string: None formats as the text None.
Format(o) == IF o.some THEN o.val ELSE <<"N", "o", "n", "e">>

-----------------------------------------------------------------------------
(* Bounds of the model *)

\* At most this many search calls of one run return a non-empty item list.
MaxHits == 2

-----------------------------------------------------------------------------
(* Program constants *)

ROLES ==
    << "Frontend Developer", "Backend Developer",
       "MERN Full Stack Developer", "Salesforce Developer" >>

MAX_PER_ROLE == 8

StartTlsPort == 587

-----------------------------------------------------------------------------
(* Inputs: the process environment and the search API's answers *)

\* A required environment variable is unset, set to "" or set to a value.
EnvValues(v) == {None, Some(<<>>), Some(<< v >>)}

\* Values of SMTP_PORT: the default 587 and a port without STARTTLS.
Ports == {StartTlsPort, 25}

\* Values of the TOP_STARTUPS environment variable:
\* "", " , " and " Acme ,acme.io".
TopStartupsEnvs ==
    { <<>>,
      <<" ", ",", " ">>,
      <<" ", "A", "c", "m", "e", " ", ",", "a", "c", "m", "e", ".", "i", "o">> }

\* One item of the "items" array of a response; an absent field is None.
RawItem(t, l, s) == [title |-> t, link |-> l, snippet |-> s]

Url(n) == Some(<<"u", n>>)
Hit(n) == RawItem(Some(<<"T", n>>), Url(n), Some(<<"s">>))

\* Same link as Hit("2"), another title.
Repost == RawItem(Some(<<"R">>), Url("2"), Some(<<"s">>))
\* No link: the dedup key is title + snippet = "TS".
NoLink == RawItem(Some(<<"T">>), None, Some(<<"S">>))
\* Empty link, title "TS" and no snippet: the same title + snippet key "TS".
EmptyLink == RawItem(Some(<<"T", "S">>), Some(<<>>), None)
\* A link and nothing else; the title needs escaping nowhere, the link is shown.
LinkOnly == RawItem(None, Some(<<"u", "&">>), None)
\* Neither title nor link.
Untitled == RawItem(None, None, Some(<<"<", "b", ">">>))
\* An empty title and no link.
BlankTitle == RawItem(Some(<<>>), None, Some(<<"x">>))

\* The non-empty "items" arrays the search API may answer with.
ItemLists ==
    { << Hit("1"), Hit("2") >>,
      << Hit("2"), NoLink, Repost, Hit("3") >>,
      << EmptyLink, LinkOnly, Hit("1") >>,
      << Hit("1"), Hit("2"), Hit("3"), Hit("4"), Hit("5"),
         Hit("6"), Hit("7"), Hit("8"), Hit("9") >>,
      << Hit("4"), Untitled >>,
      << BlankTitle >> }

\* A parsed JSON body: the "items" key may be missing.
Json(has, its) == [has |-> has, items |-> its]

\* Ways a search call fails inside google_search.
SearchFailures == {"timeout", "transport", "status", "json"}

-----------------------------------------------------------------------------
(* Configuration loader, lines 27-36 *)

RECURSIVE Split(_, _)
\* str.split(sep) for a one-character separator.
Split(s, sep) ==
    IF \A i \in 1..Len(s) : s[i] # sep
    THEN << s >>
    ELSE LET k == CHOOSE i \in 1..Len(s) :
                      s[i] = sep /\ \A j \in 1..(i - 1) : s[j] # sep
         IN  << SubSeq(s, 1, k - 1) >> \o Split(SubSeq(s, k + 1, Len(s)), sep)

RECURSIVE Strip(_)
\* str.strip() for the space character.
Strip(s) ==
    IF s = <<>> THEN s
    ELSE IF Head(s) = " " THEN Strip(Tail(s))
    ELSE IF s[Len(s)] = " " THEN Strip(SubSeq(s, 1, Len(s) - 1))
    ELSE s

\* [s.strip() for s in env.split(",") if s.strip()]
ParseTopStartups(env) ==
    LET parts == Split(env, ",")
        stripped == [i \in 1..Len(parts) |-> Strip(parts[i])]
    IN  SelectSeq(stripped, LAMBDA p : p # <<>>)

-----------------------------------------------------------------------------
(* Query builder, lines 105-114.  A query is the tuple of the pieces its   *)
(* f-string joins.                                                         *)

HasDot(d) == \E i \in 1..Len(d) : d[i] = "."

OrgQuery(role, d) ==
    IF HasDot(d) THEN << role, " site:", d >>
                 ELSE << role, " \"", d, "\"" >>

GenericQueries(role) ==
    << << role, " startup hiring" >>,
       << role, " \"we are hiring\"" >>,
       << role, " \"hiring now\"" >> >>

\* BuildQueries with the generic queries ahead of the organization ones.
BuildQueriesGenericFirst(role, startups) ==
    GenericQueries(role)
        \o [i \in 1..Len(startups) |-> OrgQuery(role, startups[i])]

BuildQueries(role, startups) ==
    [i \in 1..Len(startups) |-> OrgQuery(role, startups[i])]
        \o GenericQueries(role)

-----------------------------------------------------------------------------
(* Search client and aggregator helpers *)

\* extract_items, lines 54-61: a missing "items" key reads as [], a missing
\* title or link as None, a missing snippet as "".
ExtractItem(it) ==
    [title |-> it.title, link |-> it.link,
     snippet |-> IF it.snippet.some THEN it.snippet ELSE Some(<<>>)]

extract_items(js) ==
    LET arr == IF js.has THEN js.items ELSE <<>>
    IN  [i \in 1..Len(arr) |-> ExtractItem(arr[i])]

\* Line 125: link or (title + snippet).  The item always has the three keys
\* after extract_items, so the "" defaults of .get never apply, and the sum
\* raises TypeError when title or snippet is None.
KeyRaises(it) == ~Truthy(it.link) /\ (~it.title.some \/ ~it.snippet.some)

DedupKey(it) ==
    IF Truthy(it.link) THEN it.link.val ELSE it.title.val \o it.snippet.val

\* AlreadySeen without the lookup.
AlreadySeenNever(key, seenKeys) == FALSE

\* Line 126.
AlreadySeen(key, seenKeys) == key \in seenKeys

\* CapReached with > for >=.
CapReachedLate(col) == Len(col) > MAX_PER_ROLE

\* Lines 130 and 132.
CapReached(col) == Len(col) >= MAX_PER_ROLE

-----------------------------------------------------------------------------
(* Report renderer, lines 63-78 *)

EscapeChar(c) ==
    CASE c = "&" -> <<"&", "a", "m", "p", ";">>
      [] c = "<" -> <<"&", "l", "t", ";">>
      [] c = ">" -> <<"&", "g", "t", ";">>
      [] c = "\"" -> <<"&", "q", "u", "o", "t", ";">>
      [] c = "'" -> <<"&", "#", "x", "2", "7", ";">>
      [] OTHER -> << c >>

RECURSIVE Escape(_)
\* html.escape(s)
Escape(s) == IF s = <<>> THEN <<>> ELSE EscapeChar(Head(s)) \o Escape(Tail(s))

\* Lines 72 and 74: html.escape(None) raises AttributeError.
EntryRaises(it) == ~PyOr(it.title, it.link).some \/ ~it.snippet.some

\* Lines 72-75: one <li> of a role's list.
Entry(it) ==
    [text |-> Escape(PyOr(it.title, it.link).val),
     href |-> Format(it.link),
     small |-> Escape(it.snippet.val)]

NoResultsEntry ==
    [text |-> <<"No results found.">>, href |-> <<>>, small |-> <<>>]

\* Lines 68-76: the <h3> heading and the <ul> of one role.
Section(role, its) ==
    [role |-> role, count |-> Len(its),
     entries |-> IF its = <<>> THEN << NoResultsEntry >>
                 ELSE [i \in 1..Len(its) |-> Entry(its[i])]]

\* results_by_role is a dict: the sequence of its (role, items) pairs in
\* insertion order.
ReportRaises(res) ==
    \E r \in 1..Len(res) : \E i \in 1..Len(res[r].items) :
        EntryRaises(res[r].items[i])

build_html_report(res) ==
    [r \in 1..Len(res) |-> Section(res[r].role, res[r].items)]

-----------------------------------------------------------------------------
(* Mailer helpers, lines 80-98 *)

\* Line 81.
MailConfigOK(pass, sender, recipient) ==
    Truthy(pass) /\ Truthy(sender) /\ Truthy(recipient)

\* AfterOk without the STARTTLS branch of line 92.
AfterOkNoTls(cmd, port) ==
    CASE cmd = "ehlo" -> "login"
      [] cmd = "starttls" -> "ehlo2"
      [] cmd = "ehlo2" -> "login"
      [] cmd = "login" -> "sendmail"
      [] cmd = "sendmail" -> "quit"

\* Lines 91-96: the command that follows a command that succeeded.
AfterOk(cmd, port) ==
    CASE cmd = "ehlo" -> IF port = StartTlsPort THEN "starttls" ELSE "login"
      [] cmd = "starttls" -> "ehlo2"
      [] cmd = "ehlo2" -> "login"
      [] cmd = "login" -> "sendmail"
      [] cmd = "sendmail" -> "quit"

\* AfterFailure without the finally clause.
AfterFailureNoFinally(cmd) == "MailError"

\* Lines 90, 97-98: a command that raises inside the try block runs the
\* finally clause.
AfterFailure(cmd) == "quit"

\* AfterQuit losing the pending exception.
AfterQuitSwallowing(ok, raising) == IF ok THEN "print" ELSE "MailError"

\* Lines 97-98 and 139-140: after quit the pending exception, or quit's own,
\* leaves send_email and main; otherwise main goes on to the print.
AfterQuit(ok, raising) == IF ok /\ ~raising THEN "print" ELSE "MailError"

\* Line 96: the envelope of sendmail.
Envelope(cmd, sender, recipient) ==
    IF cmd = "sendmail"
    THEN [from |-> Format(sender), to |-> << Format(recipient) >>]
    ELSE [from |-> <<>>, to |-> <<>>]

-----------------------------------------------------------------------------
(* Orchestrator helpers *)

\* ConfigOK without the mail settings.
ConfigOKSearchOnly(key, cx, recipient, sender, pass) ==
    Truthy(key) /\ Truthy(cx)

\* Line 101.
ConfigOK(key, cx, recipient, sender, pass) ==
    Truthy(key) /\ Truthy(cx) /\ Truthy(recipient) /\ Truthy(sender)
        /\ Truthy(pass)

\* Line 47.
SearchConfigOK(key, cx) == Truthy(key) /\ Truthy(cx)

\* Lines 118-122: an exception of google_search is caught, printed, and the
\* loop continues with the next query.
AfterSearchError == "for_query"

-----------------------------------------------------------------------------
(* State *)

VARIABLES
    API_KEY, CX, RECIPIENT, SENDER, SMTP_PASS, SMTP_PORT, TOP_STARTUPS,
    pc,           \* the statement main is at, or the way the process ended
    results,      \* main's results dict, as (role, items) pairs
    ri,           \* index in ROLES of the role of the outer loop
    queries, qi,  \* the role's queries and the index of the current one
    seen, collected,
    items, ii,    \* the extracted items of the last answer, the current index
    html_report,
    conn,         \* the SMTP connection s: "none", "open" or "closed"
    raising,      \* an exception is pending while the finally clause runs
    smtpLog,      \* the SMTP commands issued, with their outcome
    printed,      \* what line 140 printed
    sends,        \* calls of send_email
    httpIssued,   \* some requests.get call has been made
    searchRaised, \* some google_search call has raised
    hits,         \* google_search calls that returned a non-empty item list
    got,          \* the current role's answers that held items, with their queries
    lastEvent     \* the current role's last event: "none", "search" or "sleep"

config == << API_KEY, CX, RECIPIENT, SENDER, SMTP_PASS, SMTP_PORT, TOP_STARTUPS >>
loop == << ri, queries, qi, seen, collected, items, ii >>
mail == << conn, raising, smtpLog, printed, sends >>
history == << httpIssued, searchRaised, hits, got, lastEvent >>
vars == << config, pc, results, loop, html_report, mail, history >>

Init ==
    /\ API_KEY \in EnvValues("k")
    /\ CX \in EnvValues("c")
    /\ RECIPIENT \in EnvValues("r")
    /\ SENDER \in EnvValues("s")
    /\ SMTP_PASS \in EnvValues("p")
    /\ SMTP_PORT \in Ports
    /\ \E env \in TopStartupsEnvs : TOP_STARTUPS = ParseTopStartups(env)
    /\ pc = "main"
    /\ results = <<>>
    /\ ri = 0
    /\ queries = <<>>
    /\ qi = 0
    /\ seen = {}
    /\ collected = <<>>
    /\ items = <<>>
    /\ ii = 0
    /\ html_report = <<>>
    /\ conn = "none"
    /\ raising = FALSE
    /\ smtpLog = <<>>
    /\ printed = <<>>
    /\ sends = 0
    /\ httpIssued = FALSE
    /\ searchRaised = FALSE
    /\ hits = 0
    /\ got = <<>>
    /\ lastEvent = "none"

-----------------------------------------------------------------------------
(* main, lines 100-140 *)

\* Lines 101-103.
CheckConfig ==
    /\ pc = "main"
    /\ pc' = IF ConfigOK(API_KEY, CX, RECIPIENT, SENDER, SMTP_PASS)
             THEN "for_role" ELSE "SystemExit"
    /\ UNCHANGED << config, results, loop, html_report, mail, history >>

\* Lines 104-116: the next role, its queries, a fresh seen and collected.
NextRole ==
    /\ pc = "for_role"
    /\ ri < Len(ROLES)
    /\ ri' = ri + 1
    /\ queries' = BuildQueries(ROLES[ri + 1], TOP_STARTUPS)
    /\ qi' = 0
    /\ seen' = {}
    /\ collected' = <<>>
    /\ got' = <<>>
    /\ lastEvent' = "none"
    /\ pc' = "for_query"
    /\ UNCHANGED << config, results, items, ii, html_report, mail,
                    httpIssued, searchRaised, hits >>

\* Lines 117-122 with google_search raising: RuntimeError for a missing key
\* (line 48, before any HTTP call), or a failure of the GET, of the status
\* check or of the JSON decoding.  The except clause prints and continues.
SearchFails ==
    /\ pc = "for_query"
    /\ qi < Len(queries)
    /\ qi' = qi + 1
    /\ \E failure \in SearchFailures \cup {"RuntimeError"} :
          /\ failure = "RuntimeError" <=> ~SearchConfigOK(API_KEY, CX)
          /\ httpIssued' = (httpIssued \/ failure # "RuntimeError")
    /\ searchRaised' = TRUE
    /\ lastEvent' = "search"
    /\ pc' = AfterSearchError
    /\ UNCHANGED << config, results, ri, queries, seen, collected, items, ii,
                    html_report, mail, hits, got >>

\* Lines 117-123 with google_search returning a JSON body.
SearchReturns ==
    /\ pc = "for_query"
    /\ qi < Len(queries)
    /\ SearchConfigOK(API_KEY, CX)
    /\ \E js \in {Json(FALSE, <<>>), Json(TRUE, <<>>)}
               \cup {Json(TRUE, l) : l \in {x \in ItemLists : hits < MaxHits}} :
          /\ items' = extract_items(js)
          /\ hits' = IF js.items = <<>> THEN hits ELSE hits + 1
          /\ got' = IF js.items = <<>> THEN got
                    ELSE Append(got, [query |-> queries[qi + 1],
                                      items |-> js.items])
    /\ qi' = qi + 1
    /\ ii' = 0
    /\ httpIssued' = TRUE
    /\ lastEvent' = "search"
    /\ pc' = "for_item"
    /\ UNCHANGED << config, results, ri, queries, seen, collected,
                    html_report, mail, searchRaised >>

\* Line 135.
Finish(role, res, col) == Append(res, [role |-> role, items |-> col])

\* Lines 124-131 for one item; when the item fills the list, the breaks of
\* lines 131 and 133 and line 135 finish the role.
NextItem ==
    /\ pc = "for_item"
    /\ ii < Len(items)
    /\ ii' = ii + 1
    /\ LET it == items[ii + 1] IN
          IF KeyRaises(it)
          THEN /\ pc' = "TypeError"
               /\ UNCHANGED << seen, collected, results >>
          ELSE IF AlreadySeen(DedupKey(it), seen)
          THEN /\ pc' = "for_item"
               /\ UNCHANGED << seen, collected, results >>
          ELSE /\ seen' = seen \cup {DedupKey(it)}
               /\ collected' = Append(collected, it)
               /\ IF CapReached(collected')
                  THEN /\ results' = Finish(ROLES[ri], results, collected')
                       /\ pc' = "for_role"
                  ELSE /\ pc' = "for_item"
                       /\ UNCHANGED results
    /\ UNCHANGED << config, ri, queries, qi, items, html_report, mail,
                    history >>

\* Lines 124 and 132-134 with the items exhausted: the pause before the
\* next query, unless the list is full.  items and its index are assigned
\* again before they are next read: they are cleared here.
Sleep ==
    /\ pc = "for_item"
    /\ ii = Len(items)
    /\ IF CapReached(collected)
       THEN /\ results' = Finish(ROLES[ri], results, collected)
            /\ pc' = "for_role"
            /\ UNCHANGED lastEvent
       ELSE /\ lastEvent' = "sleep"
            /\ pc' = "for_query"
            /\ UNCHANGED results
    /\ items' = <<>>
    /\ ii' = 0
    /\ UNCHANGED << config, ri, queries, qi, seen, collected, html_report,
                    mail, httpIssued, searchRaised, hits, got >>

\* Lines 117 and 135: the queries are exhausted, the role is finished.
QueriesDone ==
    /\ pc = "for_query"
    /\ qi = Len(queries)
    /\ results' = Finish(ROLES[ri], results, collected)
    /\ pc' = "for_role"
    /\ UNCHANGED << config, loop, html_report, mail, history >>

\* Lines 104 and 137: the roles are exhausted, the report is built.  The
\* locals of the loop are not read again: they and the history of the last
\* role are cleared.
Render ==
    /\ pc = "for_role"
    /\ ri = Len(ROLES)
    /\ IF ReportRaises(results)
       THEN pc' = "AttributeError" /\ UNCHANGED html_report
       ELSE pc' = "send_email" /\ html_report' = build_html_report(results)
    /\ queries' = <<>> /\ qi' = 0 /\ seen' = {} /\ collected' = <<>>
    /\ items' = <<>> /\ ii' = 0
    /\ got' = <<>>
    /\ lastEvent' = "none"
    /\ UNCHANGED << config, results, ri, mail, httpIssued, searchRaised, hits >>

-----------------------------------------------------------------------------
(* send_email, lines 80-98, and lines 139-140 of main *)

\* Lines 139 and 81-87.
SendEmail ==
    /\ pc = "send_email"
    /\ sends' = sends + 1
    /\ pc' = IF MailConfigOK(SMTP_PASS, SENDER, RECIPIENT)
             THEN "connect" ELSE "RuntimeError"
    /\ UNCHANGED << config, results, loop, html_report, conn, raising,
                    smtpLog, printed, history >>

\* Line 89: smtplib.SMTP(host, port) connects; when it raises, s is unbound
\* and the try block is not entered.
Connect ==
    /\ pc = "connect"
    /\ \E ok \in BOOLEAN :
          /\ smtpLog' = Append(smtpLog, [cmd |-> "connect", ok |-> ok,
                                          env |-> Envelope("connect", SENDER, RECIPIENT)])
          /\ conn' = IF ok THEN "open" ELSE "none"
          /\ pc' = IF ok THEN "ehlo" ELSE "MailError"
    /\ UNCHANGED << config, results, loop, html_report, raising, printed,
                    sends, history >>

\* Lines 91-96: one command of the session, which succeeds or raises.
Command ==
    /\ pc \in {"ehlo", "starttls", "ehlo2", "login", "sendmail"}
    /\ \E ok \in BOOLEAN :
          /\ smtpLog' = Append(smtpLog, [cmd |-> pc, ok |-> ok,
                                          env |-> Envelope(pc, SENDER, RECIPIENT)])
          /\ raising' = ~ok
          /\ pc' = IF ok THEN AfterOk(pc, SMTP_PORT) ELSE AfterFailure(pc)
    /\ UNCHANGED << config, results, loop, html_report, conn, printed,
                    sends, history >>

\* Lines 97-98: s.quit(), which closes the connection whether or not the
\* QUIT command is answered.
Quit ==
    /\ pc = "quit"
    /\ \E ok \in BOOLEAN :
          /\ smtpLog' = Append(smtpLog, [cmd |-> "quit", ok |-> ok,
                                          env |-> Envelope("quit", SENDER, RECIPIENT)])
          /\ pc' = AfterQuit(ok, raising)
    /\ conn' = "closed"
    /\ UNCHANGED << config, results, loop, html_report, raising, printed,
                    sends, history >>

\* Line 140.
PrintSent ==
    /\ pc = "print"
    /\ printed' = << "Sent email to", Format(RECIPIENT) >>
    /\ pc' = "done"
    /\ UNCHANGED << config, results, loop, html_report, conn, raising,
                    smtpLog, sends, history >>

-----------------------------------------------------------------------------

Next ==
    \/ CheckConfig
    \/ NextRole
    \/ SearchFails
    \/ SearchReturns
    \/ NextItem
    \/ Sleep
    \/ QueriesDone
    \/ Render
    \/ SendEmail
    \/ Connect
    \/ Command
    \/ Quit
    \/ PrintSent

Spec == Init /\ [][Next]_vars

-----------------------------------------------------------------------------
(* Vocabulary of the properties *)

\* The ways the process ends.
Ended ==
    {"SystemExit", "TypeError", "AttributeError", "RuntimeError", "MailError",
     "done"}

\* The statements of send_email and what follows it in main.
MailPhase ==
    {"connect", "ehlo", "starttls", "ehlo2", "login", "sendmail", "quit",
     "print", "done", "MailError", "RuntimeError"}

\* The dedup key as the specification words it: the link if present and
\* non-empty, else title and snippet joined, an absent one read as "".
SpecKey(it) ==
    IF it.link.some /\ it.link.val # <<>> THEN it.link.val
    ELSE it.title.val \o it.snippet.val

RECURSIVE Flatten(_)
Flatten(lists) ==
    IF lists = <<>> THEN <<>> ELSE Head(lists) \o Flatten(Tail(lists))

\* The items of the current role's answers, extracted, in order of arrival.
Arrived == Flatten([i \in 1..Len(got) |-> extract_items(Json(TRUE, got[i].items))])

RECURSIVE KeepFirst(_, _)
\* its without the items whose key is in keys or occurred earlier in its.
KeepFirst(its, keys) ==
    IF its = <<>> THEN <<>>
    ELSE IF SpecKey(Head(its)) \in keys THEN KeepFirst(Tail(its), keys)
    ELSE << Head(its) >> \o KeepFirst(Tail(its), keys \cup {SpecKey(Head(its))})

\* No two items of its have the same key: as many keys as items.
KeysDistinct(its) ==
    Cardinality({SpecKey(its[i]) : i \in 1..Len(its)}) = Len(its)

Take(its, n) == SubSeq(its, 1, IF Len(its) < n THEN Len(its) ELSE n)

LogIndices(cmd) == {i \in 1..Len(smtpLog) : smtpLog[i].cmd = cmd}
Succeeded(cmd) == \E i \in LogIndices(cmd) : smtpLog[i].ok
SomeCommandFailed == \E i \in 1..Len(smtpLog) : ~smtpLog[i].ok

-----------------------------------------------------------------------------
(* Properties *)

\* C1: the list being collected and every list of the results mapping hold
\* at most MAX_PER_ROLE = 8 items, whatever the queries return.
C1_CapInvariant ==
    /\ Len(collected) <= MAX_PER_ROLE
    /\ \A r \in 1..Len(results) : Len(results[r].items) <= MAX_PER_ROLE

\* A role finished with exactly 8 items after an answer of more than 8.
C1_Witness ==
    /\ pc = "for_role"
    /\ ri >= 1
    /\ Len(results[ri].items) = MAX_PER_ROLE
    /\ \E i \in 1..Len(got) : Len(got[i].items) > MAX_PER_ROLE

\* C2: no two items of a role's list share a dedup key, each kept item is the
\* first arrived item of its key, and the seen keys are those of the current
\* role's list alone.
C2_DedupInvariant ==
    /\ KeysDistinct(collected)
    /\ \A r \in 1..Len(results) : KeysDistinct(results[r].items)
    /\ LET arr == Arrived
           keys == [k \in 1..Len(arr) |-> SpecKey(arr[k])]
       IN  \A i \in 1..Len(collected) :
              \E k \in 1..Len(arr) :
                 /\ arr[k] = collected[i]
                 /\ \A m \in 1..(k - 1) : keys[m] # keys[k]
    /\ seen = {SpecKey(collected[i]) : i \in 1..Len(collected)}

\* A role dropped a later item with the key of a kept one (same link, other
\* title), and two roles' lists hold items of one key.
C2_Witness ==
    /\ pc = "for_role"
    /\ ri >= 2
    /\ LET arr == Arrived IN
          \E k, m \in 1..Len(arr) :
             /\ k < m
             /\ SpecKey(arr[k]) = SpecKey(arr[m])
             /\ arr[k] # arr[m]
             /\ \E i \in 1..Len(collected) : collected[i] = arr[k]
    /\ \E r \in 1..(ri - 1) : \E i \in 1..Len(results[r].items) :
          \E j \in 1..Len(results[ri].items) :
             SpecKey(results[r].items[i]) = SpecKey(results[ri].items[j])

\* A required setting is unset or empty.
ConfigMissing ==
    \E v \in {API_KEY, CX, RECIPIENT, SENDER, SMTP_PASS} :
        ~v.some \/ v.val = <<>>

\* C3: with a required setting missing the run ends in SystemExit: no HTTP
\* call, no SMTP connection or command, no call of send_email, no
\* confirmation.
C3_FatalConfiguration ==
    ConfigMissing =>
        /\ pc \in {"main", "SystemExit"}
        /\ ~httpIssued
        /\ conn = "none"
        /\ smtpLog = <<>>
        /\ sends = 0
        /\ printed = <<>>

\* The run ended at the configuration check with only the API key unset.
C3_Witness ==
    /\ pc = "SystemExit"
    /\ ~API_KEY.some
    /\ \A v \in {CX, RECIPIENT, SENDER, SMTP_PASS} : Truthy(v)

\* C4: a search call that raises leaves the role's list and seen keys as
\* they were, and the run still goes through every role to the rendering and
\* the call of send_email; a run without any item (every query failing is
\* one) sends a report in which every role has an empty list.
C4_PerQueryDegradation ==
    /\ (pc = "for_query" /\ lastEvent = "search") =>
          /\ collected = Take(KeepFirst(Arrived, {}), MAX_PER_ROLE)
          /\ seen = {SpecKey(collected[i]) : i \in 1..Len(collected)}
    /\ (searchRaised /\ pc \in Ended) =>
          /\ pc \in {"done", "MailError"}
          /\ Len(results) = Len(ROLES)
          /\ Len(html_report) = Len(ROLES)
          /\ sends = 1
    /\ (hits = 0 /\ pc \in {"done", "MailError"}) =>
          /\ sends = 1
          /\ \A r \in 1..Len(ROLES) :
                /\ results[r] = [role |-> ROLES[r], items |-> <<>>]
                /\ html_report[r].entries = << NoResultsEntry >>

\* The reference list of C5 for a role: the answers to the role's queries,
\* one per configured organization in configuration order and then the
\* three generic ones, joined in that order, first occurrence of each key
\* kept, cut to the first 8.
ReferenceList(role) ==
    LET expected == [i \in 1..Len(TOP_STARTUPS) |->
                        OrgQuery(role, TOP_STARTUPS[i])]
                    \o GenericQueries(role)
        answer(q) == IF \E i \in 1..Len(got) : got[i].query = q
                     THEN got[CHOOSE i \in 1..Len(got) : got[i].query = q].items
                     ELSE <<>>
        joined == Flatten([k \in 1..Len(expected) |->
                              extract_items(Json(TRUE, answer(expected[k])))])
    IN  Take(KeepFirst(joined, {}), MAX_PER_ROLE)

\* C5: when a role is finished, its entry of the results mapping is the
\* reference list of the role.
C5_AggregationReference ==
    (pc = "for_role" /\ ri >= 1) =>
        /\ Len(results) = ri
        /\ results[ri].role = ROLES[ri]
        /\ results[ri].items = ReferenceList(ROLES[ri])

\* The scenario of the specification: one organization query returns two
\* items of distinct links, every other query of the role nothing (here the
\* site: query of the second role, after a first role that kept more than
\* two items).
C5_Witness ==
    /\ pc = "for_role"
    /\ ri = 2
    /\ got = << [query |-> << ROLES[2], " site:",
                              <<"a", "c", "m", "e", ".", "i", "o">> >>,
                 items |-> << Hit("1"), Hit("2") >>] >>
    /\ results[2].items = << ExtractItem(Hit("1")), ExtractItem(Hit("2")) >>
    /\ Len(results[1].items) > 2

\* C6: send_email is called at most once, only after every role is
\* aggregated and the report rendered; the confirmation names the recipient
\* and is printed only after a session without any failure; a failed
\* command ends the run in the mail error, with one connection and one send
\* at most.
C6_MailFailureFatal ==
    /\ sends <= 1
    /\ (sends = 1 \/ pc \in MailPhase) =>
          /\ ri = Len(ROLES)
          /\ Len(results) = Len(ROLES)
          /\ html_report = build_html_report(results)
          /\ Len(html_report) = Len(ROLES)
    /\ Cardinality(LogIndices("connect")) <= 1
    /\ Cardinality(LogIndices("sendmail")) <= 1
    /\ (smtpLog # <<>>) => sends = 1
    /\ (printed # <<>> \/ pc \in {"print", "done"}) =>
          /\ ~SomeCommandFailed
          /\ Succeeded("sendmail")
          /\ Succeeded("quit")
    /\ (printed # <<>>) => printed = << "Sent email to", RECIPIENT.val >>
    /\ SomeCommandFailed =>
          /\ printed = <<>>
          /\ pc \in {"quit", "MailError"}

\* The send failed, the run ended in the mail error without confirmation.
C6_Witness ==
    /\ pc = "MailError"
    /\ \E i \in LogIndices("sendmail") : ~smtpLog[i].ok
    /\ printed = <<>>

\* C7: once the connection is opened, quit is called exactly once before
\* send_email is left, and never without a connection.
C7_ConnectionReleased ==
    /\ Cardinality(LogIndices("quit")) <= 1
    /\ (pc \in {"print", "done", "MailError", "RuntimeError"}
            /\ Succeeded("connect")) =>
          /\ Cardinality(LogIndices("quit")) = 1
          /\ conn = "closed"
    /\ ~Succeeded("connect") =>
          /\ LogIndices("quit") = {}
          /\ conn = "none"
    /\ (conn = "open") <=> (Succeeded("connect") /\ LogIndices("quit") = {})

\* The login failed and the connection was released before the error left.
C7_Witness ==
    /\ pc = "MailError"
    /\ \E i \in LogIndices("login") : ~smtpLog[i].ok
    /\ Cardinality(LogIndices("quit")) = 1
    /\ conn = "closed"

\* C8: STARTTLS is issued only on port 587, right after the first handshake
\* and with a second handshake after it; on port 587 the login follows a
\* completed STARTTLS and second handshake, on another port the first
\* handshake; the send follows a successful login and names the one
\* configured recipient.
C8_SessionOrdering ==
    /\ \A i \in LogIndices("starttls") :
          /\ SMTP_PORT = StartTlsPort
          /\ i > 1 /\ smtpLog[i - 1].cmd = "ehlo" /\ smtpLog[i - 1].ok
    /\ \A i \in LogIndices("ehlo2") :
          i > 1 /\ smtpLog[i - 1].cmd = "starttls" /\ smtpLog[i - 1].ok
    /\ \A i \in LogIndices("login") :
          /\ i > 1 /\ smtpLog[i - 1].ok
          /\ smtpLog[i - 1].cmd =
                IF SMTP_PORT = StartTlsPort THEN "ehlo2" ELSE "ehlo"
          /\ (SMTP_PORT = StartTlsPort) <=>
                (\E j \in LogIndices("starttls") : j < i /\ smtpLog[j].ok)
    /\ \A i \in LogIndices("sendmail") :
          /\ i > 1 /\ smtpLog[i - 1].cmd = "login" /\ smtpLog[i - 1].ok
          /\ smtpLog[i].env.to = << RECIPIENT.val >>
          /\ smtpLog[i].env.from = SENDER.val
    /\ \A i \in 1..Len(smtpLog) :
          smtpLog[i].cmd # "sendmail" => smtpLog[i].env.to = <<>>

\* A complete session on port 587.
C8_Witness ==
    /\ pc = "done"
    /\ SMTP_PORT = StartTlsPort
    /\ [i \in 1..Len(smtpLog) |-> smtpLog[i].cmd] =
          << "connect", "ehlo", "starttls", "ehlo2", "login", "sendmail",
             "quit" >>

\* C9: every search call of a role but its first is preceded by a pause
\* since the previous one, and once the role's list holds 8 items the role
\* has neither a pause nor a search call.
C9_PauseBetweenSearches ==
    [][ LET searchStep == ri' = ri /\ qi' = qi + 1
            sleepStep == lastEvent # "sleep" /\ lastEvent' = "sleep"
        IN  /\ searchStep => lastEvent \in {"none", "sleep"}
            /\ CapReached(collected) => ~searchStep /\ ~sleepStep ]_vars

\* C10: no content of the search results ends the run in an exception of
\* the aggregation or of the rendering; every item that arrived has a key,
\* and a rendered entry shows the title, or the link in its place.
C10_OptionalFieldsNeverAbort ==
    /\ pc \notin {"TypeError", "AttributeError"}
    /\ (pc = "for_role" /\ ri >= 1) =>
          results[ri].items = Take(KeepFirst(Arrived, {}), MAX_PER_ROLE)
    /\ \A r \in 1..Len(html_report) :
          \A i \in 1..Len(results[r].items) :
             html_report[r].entries[i].text =
                Escape(IF Truthy(results[r].items[i].title)
                       THEN results[r].items[i].title.val
                       ELSE results[r].items[i].link.val)

====
